---- MODULE Spec2Model ----
(***************************************************************************)
(* Model of the food pile dataset pipeline (src/index.js).                 *)
(*                                                                         *)
(* The file holds the two variants of the pipeline:                        *)
(*   variant "A" (lines 1-144): lighting prompt, frame_%04d.jpg, the       *)
(*                manifest writer rescans the whole target directory;      *)
(*   variant "B" (lines 146-300): no lighting, frameJoe_%04d.jpg, the      *)
(*                manifest writer appends only the files above maxNum.     *)
(*                                                                         *)
(* Strings are sequences of one-character strings, so that trimming,       *)
(* pattern matching, parseInt, %04d formatting and CSV joining are         *)
(* computed the way the code computes them.                                *)
(***************************************************************************)
EXTENDS Integers, Sequences, FiniteSets

VARIABLES
    variant,         \* which of the two programs of index.js is installed
    fs,              \* target directories: path |-> (file name |-> run that wrote it)
    manifestExists,  \* whether "Pile of food dataset/manifest.csv" exists
    manifest,        \* its lines, in order (every line is newline-terminated)
    runs,            \* one record per invocation of main(): its locals and position
    overwrites       \* history: frame files replaced by a write of another run

vars == <<variant, fs, manifestExists, manifest, runs, overwrites>>

---------------------------------------------------------------------------
(* Bounds of the model *)

MaxRuns == 3        \* invocations of main() in a sequential behaviour
MaxFrames == 2      \* frames one extraction writes at most
MaxConcRuns == 2    \* invocations of main() in an interleaved behaviour
MaxConcFrames == 1  \* frames one extraction writes at most, when interleaved

---------------------------------------------------------------------------
(* Characters and strings *)

Digits == <<"0", "1", "2", "3", "4", "5", "6", "7", "8", "9">>

UpperCase == <<"A", "B", "C", "D", "E", "F", "G", "H", "I", "J", "K", "L", "M",
               "N", "O", "P", "Q", "R", "S", "T", "U", "V", "W", "X", "Y", "Z">>

LowerCase == <<"a", "b", "c", "d", "e", "f", "g", "h", "i", "j", "k", "l", "m",
               "n", "o", "p", "q", "r", "s", "t", "u", "v", "w", "x", "y", "z">>

\* The characters that occur in file names, in code-unit order.
Alphabet == <<" ", ",", "-", ".", "/">> \o Digits \o UpperCase \o <<"_">> \o LowerCase

IndexIn(c, s) == CHOOSE i \in 1..Len(s) : s[i] = c

IsDigit(c) == \E i \in 1..Len(Digits) : Digits[i] = c

DigitValue(c) == IndexIn(c, Digits) - 1

ToLowerChar(c) ==
    IF \E i \in 1..Len(UpperCase) : UpperCase[i] = c
    THEN LowerCase[IndexIn(c, UpperCase)] ELSE c

ToUpperChar(c) ==
    IF \E i \in 1..Len(LowerCase) : LowerCase[i] = c
    THEN UpperCase[IndexIn(c, LowerCase)] ELSE c

\* String.prototype.toLowerCase
ToLowerCase(s) == [i \in 1..Len(s) |-> ToLowerChar(s[i])]

\* String.prototype.trim (the only white space the inputs hold is " ")
RECURSIVE TrimStart(_)
TrimStart(s) == IF s # <<>> /\ Head(s) = " " THEN TrimStart(Tail(s)) ELSE s

RECURSIVE TrimEnd(_)
TrimEnd(s) ==
    IF s # <<>> /\ s[Len(s)] = " " THEN TrimEnd(SubSeq(s, 1, Len(s) - 1)) ELSE s

Trim(s) == TrimEnd(TrimStart(s))

\* String.prototype.replace(".", "_"): the first occurrence only
RECURSIVE ReplaceFirstDot(_)
ReplaceFirstDot(s) ==
    IF s = <<>> THEN <<>>
    ELSE IF Head(s) = "." THEN <<"_">> \o Tail(s)
    ELSE <<Head(s)>> \o ReplaceFirstDot(Tail(s))

StartsWith(s, p) == Len(s) >= Len(p) /\ SubSeq(s, 1, Len(p)) = p

EndsWith(s, p) == Len(s) >= Len(p) /\ SubSeq(s, Len(s) - Len(p) + 1, Len(s)) = p

\* parseInt(digits, 10) of a non-empty string of decimal digits
RECURSIVE ParseIntFrom(_, _)
ParseIntFrom(acc, s) ==
    IF s = <<>> THEN acc
    ELSE ParseIntFrom(acc * 10 + DigitValue(Head(s)), Tail(s))

ParseInt(s) == ParseIntFrom(0, s)

\* Number.prototype.toString of a natural number
RECURSIVE ToString(_)
ToString(n) ==
    IF n < 10 THEN <<Digits[n + 1]>>
    ELSE ToString(n \div 10) \o <<Digits[(n % 10) + 1]>>

\* String.prototype.padStart(width, "0"); also the width of ffmpeg's %04d
PadWidth == 4

RECURSIVE PadStart(_, _)
PadStart(s, width) == IF Len(s) >= width THEN s ELSE PadStart(<<"0">> \o s, width)

\* Array.prototype.join
RECURSIVE Join(_, _)
Join(parts, sep) ==
    IF parts = <<>> THEN <<>>
    ELSE IF Len(parts) = 1 THEN parts[1]
    ELSE parts[1] \o sep \o Join(Tail(parts), sep)

---------------------------------------------------------------------------
(* Literals of the program *)

rootDir == <<"P", "i", "l", "e", " ", "o", "f", " ", "f", "o", "o", "d", " ",
             "d", "a", "t", "a", "s", "e", "t">>

nameForImages == <<"J", "o", "e">>

JpgSuffix == <<".", "j", "p", "g">>

headerLine == <<"i", "m", "a", "g", "e", "_", "p", "a", "t", "h", ",",
                "i", "n", "t", "e", "r", "v", "a", "l", ",",
                "s", "u", "b", "i", "n", "t", "e", "r", "v", "a", "l", ",",
                "l", "i", "g", "h", "t">>

\* The literal the pattern and the output template start with.
FramePrefix(v) ==
    IF v = "A" THEN <<"f", "r", "a", "m", "e", "_">>
    ELSE <<"f", "r", "a", "m", "e">> \o nameForImages \o <<"_">>

---------------------------------------------------------------------------
(* Operator input: the answers to the prompts (each passes its validator) *)

Requests ==
    { [interval |-> <<"1", "-", "2">>,
       subInterval |-> <<"1", ".", "3">>,
       lightLevel |-> <<"l", "o", "w">>],
      [interval |-> <<"1", "-", "2">>,
       subInterval |-> <<" ", "2">>,
       lightLevel |-> <<"h", "i", "g", "h">>] }

FirstRequest == CHOOSE req \in Requests : req.subInterval = <<"1", ".", "3">>

---------------------------------------------------------------------------
(* Path Builder *)

intervalDir(req) == Trim(req.interval) \o <<"I", "n", "t", "e", "r", "v", "a", "l">>

subDirName(req) ==
    ReplaceFirstDot(Trim(req.subInterval)) \o <<"P", "o", "u", "n", "d", "s">>

lightDirName(req) ==
    <<ToUpperChar(Head(req.lightLevel))>> \o Tail(req.lightLevel)
        \o <<"L", "i", "g", "h", "t">>

\* path.join(...): the path as its sequence of components
targetDir(v, req) ==
    IF v = "A" THEN <<rootDir, intervalDir(req), subDirName(req), lightDirName(req)>>
    ELSE <<rootDir, intervalDir(req), subDirName(req)>>

\* path.relative(rootDir, targetDir).split(path.sep).join("/")
relDir(dir) == Join(Tail(dir), <<"/">>)

---------------------------------------------------------------------------
(* Directory listings *)

CodeUnit(c) == IndexIn(c, Alphabet)

RECURSIVE NameLess(_, _)
NameLess(a, b) ==
    IF a = <<>> THEN b # <<>>
    ELSE IF b = <<>> THEN FALSE
    ELSE IF Head(a) = Head(b) THEN NameLess(Tail(a), Tail(b))
    ELSE CodeUnit(Head(a)) < CodeUnit(Head(b))

RECURSIVE SortNames(_)
SortNames(S) ==
    IF S = {} THEN <<>>
    ELSE LET m == CHOOSE x \in S : \A y \in S \ {x} : NameLess(x, y)
         IN  <<m>> \o SortNames(S \ {m})

\* fs.readdir(dir): the names in the directory.  The order is the file
\* system's; it is taken to be code-unit order.
ReadDir(dir) == SortNames(DOMAIN fs[dir])

---------------------------------------------------------------------------
(* Resume Calculator *)

\* As RegexGroup, with the i flag on the pattern.
RegexGroupIgnoreCase(f, v) ==
    LET prefix == ToLowerCase(FramePrefix(v))
        g      == ToLowerCase(f)
        group  == SubSeq(g, Len(prefix) + 1, Len(g) - Len(JpgSuffix))
    IN  IF /\ Len(g) > Len(prefix) + Len(JpgSuffix)
           /\ StartsWith(g, prefix)
           /\ EndsWith(g, JpgSuffix)
           /\ \A i \in 1..Len(group) : IsDigit(group[i])
        THEN group ELSE <<>>

\* f.match(regex) for /^frame_(\d+)\.jpg$/ (A) and
\* new RegExp(`^frame${nameForImages}_(\\d+)\\.jpg$`) (B):
\* the captured digits m[1], or <<>> when m is null.
RegexGroup(f, v) ==
    LET prefix == FramePrefix(v)
        group  == SubSeq(f, Len(prefix) + 1, Len(f) - Len(JpgSuffix))
    IN  IF /\ Len(f) > Len(prefix) + Len(JpgSuffix)
           /\ StartsWith(f, prefix)
           /\ EndsWith(f, JpgSuffix)
           /\ \A i \in 1..Len(group) : IsDigit(group[i])
        THEN group ELSE <<>>

\* The loop "for (const f of files)" that keeps the largest parsed index.
RECURSIVE MaxNumLoop(_, _, _)
MaxNumLoop(files, v, maxNum) ==
    IF files = <<>> THEN maxNum
    ELSE LET m == RegexGroup(Head(files), v)
         IN  IF m # <<>> /\ ParseInt(m) > maxNum
             THEN MaxNumLoop(Tail(files), v, ParseInt(m))
             ELSE MaxNumLoop(Tail(files), v, maxNum)

\* As MaxNumOf, without the comparison "num > maxNum": the first match is kept.
RECURSIVE MaxNumOfFirstMatch(_, _)
MaxNumOfFirstMatch(files, v) ==
    IF files = <<>> THEN 0
    ELSE IF RegexGroup(Head(files), v) # <<>> THEN ParseInt(RegexGroup(Head(files), v))
    ELSE MaxNumOfFirstMatch(Tail(files), v)

MaxNumOf(files, v) == MaxNumLoop(files, v, 0)

\* As StartNumberOf, without the increment.
StartNumberOfLast(maxNum) == maxNum

StartNumberOf(maxNum) == maxNum + 1

---------------------------------------------------------------------------
(* Frame Extractor: ffmpeg with -start_number and the %04d template *)

\* The name ffmpeg gives the frame with index n.
FrameName(v, n) == FramePrefix(v) \o PadStart(ToString(n), PadWidth) \o JpgSuffix

---------------------------------------------------------------------------
(* Manifest Writer *)

\* Variant A: frames.filter(f => f.toLowerCase().endsWith(".jpg"))
IsJpg(f) == EndsWith(ToLowerCase(f), JpgSuffix)

RECURSIVE JpgFiles(_)
JpgFiles(frames) ==
    IF frames = <<>> THEN <<>>
    ELSE IF IsJpg(Head(frames)) THEN <<Head(frames)>> \o JpgFiles(Tail(frames))
    ELSE JpgFiles(Tail(frames))

\* As IsNewFile, with >= for >.
IsNewFileInclusive(f, v, maxNum) ==
    LET m == RegexGroup(f, v) IN m # <<>> /\ (ParseInt(m) > maxNum \/ ParseInt(m) = maxNum)

\* Variant B: allFiles.filter(f => { m = f.match(regex);
\*                                   return m && parseInt(m[1], 10) > maxNum })
IsNewFile(f, v, maxNum) ==
    LET m == RegexGroup(f, v) IN m # <<>> /\ ParseInt(m) > maxNum

\* As NewFiles, without the test against maxNum.
RECURSIVE NewFilesAll(_, _, _)
NewFilesAll(allFiles, v, maxNum) ==
    IF allFiles = <<>> THEN <<>>
    ELSE IF RegexGroup(Head(allFiles), v) # <<>>
         THEN <<Head(allFiles)>> \o NewFilesAll(Tail(allFiles), v, maxNum)
    ELSE NewFilesAll(Tail(allFiles), v, maxNum)

RECURSIVE NewFiles(_, _, _)
NewFiles(allFiles, v, maxNum) ==
    IF allFiles = <<>> THEN <<>>
    ELSE IF IsNewFile(Head(allFiles), v, maxNum)
         THEN <<Head(allFiles)>> \o NewFiles(Tail(allFiles), v, maxNum)
    ELSE NewFiles(Tail(allFiles), v, maxNum)

\* `${relDir}/${f}`
ImagePath(dir, f) == relDir(dir) \o <<"/">> \o f

\* The template literal of one CSV row.
CsvLine(v, dir, req, f) ==
    IF v = "A"
    THEN Join(<<ImagePath(dir, f), Trim(req.interval), Trim(req.subInterval),
                ToLowerCase(req.lightLevel)>>, <<",">>)
    ELSE Join(<<ImagePath(dir, f), Trim(req.interval), Trim(req.subInterval)>>,
              <<",">>)

\* As CsvLinesOf, with variant B's filter in both variants.
CsvLinesOfIncremental(v, dir, req, listing, maxNum) ==
    LET chosen == NewFiles(listing, v, maxNum)
    IN  [i \in 1..Len(chosen) |-> CsvLine(v, dir, req, chosen[i])]

\* The files a run records, then mapped to their rows.
CsvLinesOf(v, dir, req, listing, maxNum) ==
    LET chosen == IF v = "A" THEN JpgFiles(listing) ELSE NewFiles(listing, v, maxNum)
    IN  [i \in 1..Len(chosen) |-> CsvLine(v, dir, req, chosen[i])]

\* The lines that appending csvLines.join("\n") + "\n" adds to a file whose
\* last line is terminated: the rows, or one empty line when there are none.
AppendedLines(csvLines) == IF csvLines = <<>> THEN << <<>> >> ELSE csvLines

---------------------------------------------------------------------------
(* State machine: invocations of main() *)

Variants == {"A", "B"}

RunIds == 1..Len(runs)

Active(r) == runs[r].pc \notin {"done", "failed"}

ActiveRuns == {r \in RunIds : Active(r)}

\* A fresh working directory: no dataset, no manifest, nothing run yet.
Init ==
    /\ variant \in Variants
    /\ fs = <<>>
    /\ manifestExists = FALSE
    /\ manifest = <<>>
    /\ runs = <<>>
    /\ overwrites = {}

\* fs.ensureDir(targetDir)
EnsureDir(dir) ==
    IF dir \in DOMAIN fs THEN fs
    ELSE [d \in DOMAIN fs \cup {dir} |-> IF d = dir THEN <<>> ELSE fs[d]]

\* main() is invoked, the prompts are answered, the target directory is
\* ensured.  At most `lim` invocations are in progress at a time, `cap` in all;
\* `reqs` are the answers the operator may give.
StartRun(lim, cap, reqs) ==
    /\ Len(runs) < cap
    /\ Cardinality(ActiveRuns) < lim
    /\ \E req \in reqs :
          LET dir == targetDir(variant, req) IN
          /\ fs' = EnsureDir(dir)
          /\ runs' = Append(runs, [req |-> req, dir |-> dir, pc |-> "readdir",
                                   files |-> <<>>, engine |-> "idle",
                                   maxNum |-> 0, startNumber |-> 0, written |-> 0,
                                   exists |-> FALSE, wroteHeader |-> FALSE,
                                   csvLines |-> <<>>, exit |-> -1])
    /\ UNCHANGED <<variant, manifestExists, manifest, overwrites>>

\* files = await fs.readdir(targetDir); the loop; startNumber = maxNum + 1
ResumeCalc(r) ==
    /\ runs[r].pc = "readdir"
    /\ LET files  == ReadDir(runs[r].dir)
           maxNum == MaxNumOf(files, variant)
       IN  runs' = [runs EXCEPT ![r].files = files,
                                ![r].maxNum = maxNum,
                                ![r].startNumber = StartNumberOf(maxNum),
                                ![r].engine = "running",
                                ![r].pc = "extract"]
    /\ UNCHANGED <<variant, fs, manifestExists, manifest, overwrites>>

\* ffmpeg writes its next frame, replacing a file of that name if there is one.
\* The video holds at most `frames` frames at the sampling rate.
WriteFrame(r, frames) ==
    /\ runs[r].pc = "extract"
    /\ runs[r].written < frames
    /\ LET dir  == runs[r].dir
           name == FrameName(variant, runs[r].startNumber + runs[r].written)
           old  == fs[dir]
       IN  /\ fs' = [fs EXCEPT ![dir] =
                        [n \in DOMAIN old \cup {name} |-> IF n = name THEN r ELSE old[n]]]
           /\ overwrites' =
                 IF name \in DOMAIN old
                 THEN overwrites \cup {[dir |-> dir, name |-> name,
                                        was |-> old[name], by |-> r]}
                 ELSE overwrites
    /\ runs' = [runs EXCEPT ![r].written = @ + 1]
    /\ UNCHANGED <<variant, manifestExists, manifest>>

\* .on("end"): resolve(); main() goes on to the manifest.
ExtractEnd(r) ==
    /\ runs[r].pc = "extract"
    /\ runs' = [runs EXCEPT ![r].engine = "end", ![r].pc = "pathExists"]
    /\ UNCHANGED <<variant, fs, manifestExists, manifest, overwrites>>

\* As ExtractError, with resolve() where reject(err) is.
ExtractErrorResolved(r) ==
    /\ runs[r].pc = "extract"
    /\ runs' = [runs EXCEPT ![r].engine = "error", ![r].pc = "pathExists"]
    /\ UNCHANGED <<variant, fs, manifestExists, manifest, overwrites>>

\* .on("error"): reject(err); main().catch logs and calls process.exit(1).
ExtractError(r) ==
    /\ runs[r].pc = "extract"
    /\ runs' = [runs EXCEPT ![r].engine = "error", ![r].pc = "failed", ![r].exit = 1]
    /\ UNCHANGED <<variant, fs, manifestExists, manifest, overwrites>>

\* As PathExists, with the test's result dropped: the header is always written.
PathExistsIgnored(r) ==
    /\ runs[r].pc = "pathExists"
    /\ runs' = [runs EXCEPT ![r].exists = FALSE, ![r].pc = "writeFile"]
    /\ UNCHANGED <<variant, fs, manifestExists, manifest, overwrites>>

\* await fs.pathExists(manifestPath)
PathExists(r) ==
    /\ runs[r].pc = "pathExists"
    /\ runs' = [runs EXCEPT ![r].exists = manifestExists,
                            ![r].pc = IF manifestExists THEN "readdirFrames"
                                      ELSE "writeFile"]
    /\ UNCHANGED <<variant, fs, manifestExists, manifest, overwrites>>

\* await fs.writeFile(manifestPath, headerLine): the file is replaced.
WriteHeader(r) ==
    /\ runs[r].pc = "writeFile"
    /\ manifestExists' = TRUE
    /\ manifest' = <<headerLine>>
    /\ runs' = [runs EXCEPT ![r].wroteHeader = TRUE, ![r].pc = "readdirFrames"]
    /\ UNCHANGED <<variant, fs, overwrites>>

\* frames = await fs.readdir(targetDir); filter; map to CSV rows
BuildCsvLines(r) ==
    /\ runs[r].pc = "readdirFrames"
    /\ runs' = [runs EXCEPT
                   ![r].csvLines = CsvLinesOf(variant, runs[r].dir, runs[r].req,
                                              ReadDir(runs[r].dir), runs[r].maxNum),
                   ![r].pc = "appendFile"]
    /\ UNCHANGED <<variant, fs, manifestExists, manifest, overwrites>>

\* Variant A appends always; variant B only "if (csvLines.length)".
Appends(v, csvLines) == v = "A" \/ csvLines # <<>>

\* await fs.appendFile(manifestPath, csvLines.join("\n") + "\n"); "All done!"
AppendManifest(r) ==
    /\ runs[r].pc = "appendFile"
    /\ IF Appends(variant, runs[r].csvLines)
       THEN /\ manifest' = manifest \o AppendedLines(runs[r].csvLines)
            /\ manifestExists' = TRUE
       ELSE UNCHANGED <<manifest, manifestExists>>
    /\ runs' = [runs EXCEPT ![r].pc = "done", ![r].exit = 0]
    /\ UNCHANGED <<variant, fs, overwrites>>

\* The answers of a sequential behaviour.  The target directories are
\* interchangeable, so the first run is taken to go into the first of them.
Answers == IF runs = <<>> THEN {FirstRequest} ELSE Requests

\* The operator runs the tool again only after the previous run has exited.
Next ==
    \/ StartRun(1, MaxRuns, Answers)
    \/ \E r \in RunIds : ResumeCalc(r)
    \/ \E r \in RunIds : WriteFrame(r, MaxFrames)
    \/ \E r \in RunIds : ExtractEnd(r)
    \/ \E r \in RunIds : ExtractError(r)
    \/ \E r \in RunIds : PathExists(r)
    \/ \E r \in RunIds : WriteHeader(r)
    \/ \E r \in RunIds : BuildCsvLines(r)
    \/ \E r \in RunIds : AppendManifest(r)

Spec == Init /\ [][Next]_vars

\* The tool is started in two terminals, with the same answers: two
\* invocations are in progress at a time.
SameRequest == {FirstRequest}

NextConc ==
    \/ StartRun(2, MaxConcRuns, SameRequest)
    \/ \E r \in RunIds : ResumeCalc(r)
    \/ \E r \in RunIds : WriteFrame(r, MaxConcFrames)
    \/ \E r \in RunIds : ExtractEnd(r)
    \/ \E r \in RunIds : ExtractError(r)
    \/ \E r \in RunIds : PathExists(r)
    \/ \E r \in RunIds : WriteHeader(r)
    \/ \E r \in RunIds : BuildCsvLines(r)
    \/ \E r \in RunIds : AppendManifest(r)

SpecConc == Init /\ [][NextConc]_vars

---------------------------------------------------------------------------
(* The Resume Calculator on arbitrary directory listings *)

\* Names an operator may have left in a target directory: frames of either
\* variant in several widths, and names that miss a pattern narrowly.
NamePool ==
    { <<"f", "r", "a", "m", "e", "_", "0", "0", "0", "1", ".", "j", "p", "g">>,   \* frame_0001.jpg
      <<"f", "r", "a", "m", "e", "_", "1", "2", ".", "j", "p", "g">>,   \* frame_12.jpg
      <<"f", "r", "a", "m", "e", "_", "0", "0", "0", "3", "1", ".", "j", "p", "g">>,   \* frame_00031.jpg
      <<"f", "r", "a", "m", "e", "J", "o", "e", "_", "0", "0", "0", "3", ".", "j", "p", "g">>,   \* frameJoe_0003.jpg
      <<"f", "r", "a", "m", "e", "J", "o", "e", "_", "2", "5", ".", "j", "p", "g">>,   \* frameJoe_25.jpg
      <<"x", "f", "r", "a", "m", "e", "_", "0", "0", "9", "9", ".", "j", "p", "g">>,   \* xframe_0099.jpg
      <<"f", "r", "a", "m", "e", "_", "0", "0", "9", "8", ".", "j", "p", "g", ".", "b", "a", "k">>,   \* frame_0098.jpg.bak
      <<"f", "r", "a", "m", "e", "_", "0", "0", "9", "7", ".", "J", "P", "G">>,   \* frame_0097.JPG
      <<"f", "r", "a", "m", "e", "_", "9", "a", "6", ".", "j", "p", "g">>,   \* frame_9a6.jpg
      <<"f", "r", "a", "m", "e", "_", ".", "j", "p", "g">>,   \* frame_.jpg
      <<"f", "r", "a", "m", "e", "J", "o", "e", "_", "9", "6", ".", "J", "P", "G">>,   \* frameJoe_96.JPG
      <<"x", "f", "r", "a", "m", "e", "J", "o", "e", "_", "0", "0", "9", "4", ".", "j", "p", "g">> }

\* The dataset already holds a target directory with some of these names
\* (writer 0: not a run of this model).
InitResume ==
    /\ variant \in Variants
    /\ \E listing \in SUBSET NamePool :
          fs = [d \in {targetDir(variant, FirstRequest)} |-> [n \in listing |-> 0]]
    /\ manifestExists = FALSE
    /\ manifest = <<>>
    /\ runs = <<>>
    /\ overwrites = {}

NextResume == StartRun(1, 1, Requests) \/ \E r \in RunIds : ResumeCalc(r)

SpecResume == InitResume /\ [][NextResume]_vars

---------------------------------------------------------------------------
(* Vocabulary of the properties *)

Succeeded(r) == runs[r].pc = "done"

Failed(r) == runs[r].pc = "failed"

\* The run has computed its start index.
Resumed(r) == runs[r].pc # "readdir"

\* The frame indices ffmpeg has written for run r, and their file names.
IndicesOf(r) ==
    IF Resumed(r)
    THEN runs[r].startNumber .. (runs[r].startNumber + runs[r].written - 1)
    ELSE {}

FramesOf(r) == {FrameName(variant, i) : i \in IndicesOf(r)}

Range(s) == {s[i] : i \in 1..Len(s)}

Occurrences(s, x) == Cardinality({i \in 1..Len(s) : s[i] = x})

\* The fields of a CSV line: the pieces between its commas.
RECURSIVE FieldsFrom(_, _)
FieldsFrom(field, rest) ==
    IF rest = <<>> THEN <<field>>
    ELSE IF Head(rest) = "," THEN <<field>> \o FieldsFrom(<<>>, Tail(rest))
    ELSE FieldsFrom(Append(field, Head(rest)), Tail(rest))

Fields(line) == FieldsFrom(<<>>, line)

\* The lines of the manifest below the first.
DataLines == IF manifest = <<>> THEN <<>> ELSE Tail(manifest)

\* The first field of a CSV line: what precedes its first comma.
FirstField(line) ==
    LET commas == {i \in 1..Len(line) : line[i] = ","}
    IN  IF commas = {} THEN line
        ELSE SubSeq(line, 1, (CHOOSE m \in commas : \A n \in commas : m <= n) - 1)

\* The image paths of the manifest's rows, in order.
RowPaths == [i \in 1..Len(DataLines) |-> FirstField(DataLines[i])]

\* A decimal numeral's value, by the weights of its positions.
RECURSIVE PowerOfTen(_)
PowerOfTen(k) == IF k = 0 THEN 1 ELSE 10 * PowerOfTen(k - 1)

RECURSIVE WeightedSum(_, _)
WeightedSum(ds, i) ==
    IF i > Len(ds) THEN 0
    ELSE DigitValue(ds[i]) * PowerOfTen(Len(ds) - i) + WeightedSum(ds, i + 1)

\* The name is prefix, then k >= 1 decimal digits, then ".jpg", and nothing else.
FullyMatches(f, v) ==
    \E k \in 1..Len(f) :
        /\ Len(f) = Len(FramePrefix(v)) + k + Len(JpgSuffix)
        /\ \A i \in 1..Len(FramePrefix(v)) : f[i] = FramePrefix(v)[i]
        /\ \A i \in 1..k : f[Len(FramePrefix(v)) + i] \in Range(Digits)
        /\ \A i \in 1..Len(JpgSuffix) : f[Len(FramePrefix(v)) + k + i] = JpgSuffix[i]

IndexOfName(f, v) ==
    WeightedSum(SubSeq(f, Len(FramePrefix(v)) + 1, Len(f) - Len(JpgSuffix)), 1)

\* One more than the largest index among the fully matching names; 1 if none.
ExpectedStart(names, v) ==
    LET idx == {IndexOfName(f, v) : f \in {g \in names : FullyMatches(g, v)}}
    IN  IF idx = {} THEN 1
        ELSE 1 + (CHOOSE m \in idx : \A n \in idx : n <= m)

---------------------------------------------------------------------------
(* C4 *)

\* C4: for every directory listing, the start index a run computes is 1 plus
\* the largest decimal index among the names that fully match the frame
\* pattern (prefix, digits of any width, ".jpg"), and 1 when none matches;
\* the names that do not match have no influence on it.
C4_StartIndex ==
    \A r \in RunIds :
        Resumed(r) =>
            LET names    == Range(runs[r].files)
                matching == {f \in names : FullyMatches(f, variant)}
            IN  /\ names = DOMAIN fs[runs[r].dir]
                /\ runs[r].startNumber = ExpectedStart(names, variant)
                /\ runs[r].startNumber = ExpectedStart(matching, variant)
                /\ runs[r].startNumber =
                      StartNumberOf(MaxNumOf(SortNames(matching), variant))

\* A listing with matching names of several widths and names that miss the
\* pattern narrowly with larger numbers; the start index follows the former.
C4_Witness ==
    \E r \in RunIds :
        /\ Resumed(r)
        /\ runs[r].startNumber = 32
        /\ \E f \in Range(runs[r].files) : ~FullyMatches(f, variant) /\ IsJpg(f)
        /\ Cardinality({f \in Range(runs[r].files) : FullyMatches(f, variant)}) >= 3

---------------------------------------------------------------------------
(* C5 *)

\* C5: in sequential runs the start index is computed before extraction
\* begins and every file the extractor writes has an index >= it, so no frame
\* file that existed before a run is overwritten by it, and the frame indices
\* of a directory only grow from run to run.
C5_NoOverwrite ==
    /\ overwrites = {}
    /\ \A d \in DOMAIN fs :
          LET index == [f \in DOMAIN fs[d] |-> IndexOfName(f, variant)] IN
          \A r \in RunIds :
              (runs[r].dir = d /\ Resumed(r)) =>
                 LET frames == FramesOf(r) IN
                 /\ \A f \in DOMAIN fs[d] :
                       IF fs[d][f] = r
                       THEN index[f] \in IndicesOf(r)
                       ELSE fs[d][f] < r => index[f] < runs[r].startNumber
                 /\ \A f \in frames : f \in DOMAIN fs[d] /\ fs[d][f] = r
                 /\ \A f \in Range(runs[r].files) : f \notin frames
    /\ \A r1, r2 \in RunIds :
          (r1 < r2 /\ runs[r1].dir = runs[r2].dir /\ Resumed(r2)) =>
              /\ runs[r2].startNumber = runs[r1].startNumber + runs[r1].written
                 \/ runs[r2].startNumber > runs[r1].startNumber + runs[r1].written
              /\ \A i \in IndicesOf(r1), j \in IndicesOf(r2) : i < j

\* A run has written frames into a directory that held frames of an earlier run.
C5_Witness ==
    \E r1, r2 \in RunIds :
        /\ r1 < r2
        /\ runs[r1].dir = runs[r2].dir
        /\ runs[r1].written >= 1
        /\ runs[r2].written >= 1
        /\ runs[r2].files # <<>>

---------------------------------------------------------------------------
(* C1 *)

\* The lines the runs 1..r have appended, in the order of the runs.
RECURSIVE AppendedThrough(_)
AppendedThrough(r) ==
    IF r = 0 THEN <<>>
    ELSE AppendedThrough(r - 1) \o
         (IF Succeeded(r) /\ Appends(variant, runs[r].csvLines)
          THEN AppendedLines(runs[r].csvLines) ELSE <<>>)

\* C1: in the incremental variant (B), run sequentially, each successful run
\* appends to the manifest exactly one row per frame file it created, no image
\* path is in more than one manifest row, and every frame index a run writes
\* is greater than every index an earlier run wrote into that directory.
C1_Incremental ==
    variant = "B" =>
        /\ \A r \in RunIds :
              Succeeded(r) =>
                 /\ Len(runs[r].csvLines) = runs[r].written
                 /\ {FirstField(l) : l \in Range(runs[r].csvLines)}
                       = {ImagePath(runs[r].dir, f) : f \in FramesOf(r)}
        /\ DataLines = AppendedThrough(Len(runs))
        /\ LET paths == RowPaths
           IN  \A i, j \in 1..Len(paths) : paths[i] = paths[j] => i = j
        /\ \A r1, r2 \in RunIds :
              (r1 < r2 /\ runs[r1].dir = runs[r2].dir) =>
                  \A i \in IndicesOf(r1), j \in IndicesOf(r2) : i < j

\* Two successive successful runs of variant B into one directory, each
\* having extracted frames.
C1_Witness ==
    /\ variant = "B"
    /\ \E r \in RunIds :
          /\ r + 1 \in RunIds
          /\ Succeeded(r) /\ Succeeded(r + 1)
          /\ runs[r].dir = runs[r + 1].dir
          /\ runs[r].written >= 1 /\ runs[r + 1].written >= 1

---------------------------------------------------------------------------
(* C2 *)

RECURSIVE FramesThrough(_)
FramesThrough(r) ==
    IF r = 0 THEN 0
    ELSE FramesThrough(r - 1) + (IF Succeeded(r) THEN runs[r].written ELSE 0)

\* C2: once every run has exited, the manifest holds exactly one header line
\* plus as many data lines as the successful runs produced new frame files,
\* in either variant.
C2_RowCount ==
    (manifestExists /\ ActiveRuns = {}) =>
        /\ Occurrences(manifest, headerLine) = 1
        /\ Cardinality({i \in 1..Len(manifest) :
                           manifest[i] # headerLine /\ manifest[i] # <<>>})
              = FramesThrough(Len(runs))

---------------------------------------------------------------------------
(* C3 *)

\* C3: in sequential runs the header line is written exactly once: only by a
\* run that found the manifest absent, as the first line of the file, and by
\* no later run.
C3_HeaderOnce ==
    /\ Cardinality({r \in RunIds : runs[r].wroteHeader})
          = (IF manifestExists THEN 1 ELSE 0)
    /\ manifestExists =>
          /\ manifest # <<>>
          /\ manifest[1] = headerLine
          /\ Occurrences(manifest, headerLine) = 1
    /\ \A r \in RunIds :
          /\ runs[r].wroteHeader => ~runs[r].exists
          /\ runs[r].wroteHeader => \A q \in RunIds : q > r => ~runs[q].wroteHeader
          /\ runs[r].pc \in {"readdirFrames", "appendFile", "done"} =>
                (runs[r].wroteHeader <=> ~runs[r].exists)
          /\ Failed(r) => ~runs[r].wroteHeader

\* A run wrote the header, a later run failed, and a run after it found the
\* manifest and appended to it.
C3_Witness ==
    \E r1, r2, r3 \in RunIds :
        /\ r1 < r2 /\ r2 < r3
        /\ runs[r1].wroteHeader /\ Succeeded(r1)
        /\ Failed(r2)
        /\ Succeeded(r3) /\ runs[r3].exists /\ runs[r3].csvLines # <<>>

---------------------------------------------------------------------------
(* C6 *)

\* Two successful runs into one directory, with no run into it in between.
RanTwice(r1, r2) ==
    /\ r1 < r2
    /\ runs[r1].dir = runs[r2].dir
    /\ Succeeded(r1) /\ Succeeded(r2)
    /\ \A q \in RunIds : (r1 < q /\ q < r2) => runs[q].dir # runs[r1].dir

\* The files of run r's directory that were there before run r started.
PresentBefore(r) == {f \in DOMAIN fs[runs[r].dir] : fs[runs[r].dir][f] < r}

---------------------------------------------------------------------------
(* C7 *)

\* C7: in the variant without lighting (B), every data row appended to the
\* manifest has as many comma-separated fields as the header line.
C7_FieldCount ==
    variant = "B" =>
        \A i \in 1..Len(DataLines) :
            Len(Fields(DataLines[i])) = Len(Fields(headerLine))

---------------------------------------------------------------------------
(* C8 *)

\* C8: when the extraction engine reports an error the run aborts: it exits
\* with status 1 and stays there, it neither creates nor appends to the
\* manifest, it is not retried, and the frames already written stay in place.
C8_AbortOnError ==
    /\ \A r \in RunIds :
          runs[r].engine = "error" =>
             /\ Failed(r)
             /\ runs[r].exit = 1
             /\ ~runs[r].wroteHeader
             /\ runs[r].csvLines = <<>>
             /\ \A f \in FramesOf(r) :
                   f \in DOMAIN fs[runs[r].dir] /\ fs[runs[r].dir][f] = r
    /\ (\A r \in RunIds : runs[r].engine \in {"idle", "running", "error"})
          => ~manifestExists /\ manifest = <<>>
    /\ \A r \in RunIds : runs[r].exit = 1 <=> runs[r].engine = "error"

\* An extraction failed after writing a frame, and a later run has completed.
C8_Witness ==
    \E r1, r2 \in RunIds :
        /\ r1 < r2
        /\ runs[r1].engine = "error"
        /\ runs[r1].written >= 1
        /\ Succeeded(r2)
        /\ runs[r2].dir = runs[r1].dir

---------------------------------------------------------------------------
(* C9 *)

\* C9: when two runs into one directory are interleaved, a run overwrites a
\* frame file only if it listed the directory before that file was written;
\* the state in which both runs listed the directory before either wrote,
\* computed the same start index, and the later writer replaced the other's
\* frame is reachable (C9_Race).
C9_RaceOnly ==
    \A o \in overwrites :
        /\ o.was # o.by
        /\ o.name \notin Range(runs[o.by].files)
        /\ runs[o.was].dir = runs[o.by].dir
        /\ IndexOfName(o.name, variant) \in IndicesOf(o.was) \cap IndicesOf(o.by)

C9_Race ==
    \E o \in overwrites :
        /\ o.was # o.by
        /\ runs[o.was].dir = runs[o.by].dir
        /\ runs[o.was].files = runs[o.by].files
        /\ Range(runs[o.was].files) \cap (FramesOf(o.was) \cup FramesOf(o.by)) = {}
        /\ runs[o.was].startNumber = runs[o.by].startNumber
        /\ fs[o.dir][o.name] = o.by

---------------------------------------------------------------------------
(* C10 *)

\* C10: in the incremental variant (B), run sequentially, the frame files a
\* failed extraction left behind never get a manifest row: the failed run
\* writes none, and every later run into that directory computes a maxNum
\* that covers them and filters them out.
C10_FailedFramesUnlisted ==
    variant = "B" =>
        LET listed == Range(RowPaths) IN
        \A r \in RunIds :
            Failed(r) =>
               /\ runs[r].csvLines = <<>>
               /\ \A f \in FramesOf(r) :
                     /\ f \in DOMAIN fs[runs[r].dir]
                     /\ ImagePath(runs[r].dir, f) \notin listed
                     /\ \A q \in RunIds :
                           (q > r /\ runs[q].dir = runs[r].dir /\ Resumed(q)) =>
                               /\ ~IsNewFile(f, variant, runs[q].maxNum)
                               /\ \A l \in Range(runs[q].csvLines) :
                                     FirstField(l) # ImagePath(runs[r].dir, f)

\* A failed extraction left frames behind and a later run into the same
\* directory succeeded and appended rows.
C10_Witness ==
    /\ variant = "B"
    /\ \E r, q \in RunIds :
          /\ r < q
          /\ Failed(r) /\ runs[r].written >= 1
          /\ runs[q].dir = runs[r].dir
          /\ Succeeded(q) /\ runs[q].written >= 1

====
